---- MODULE Spec2Model ----
(***************************************************************************)
(* HYPERBUSFBlockDevice: a block device over a HyperBus NOR flash.         *)
(*                                                                         *)
(* The driver (init, deinit, read, program, erase, _sync, _wren) is        *)
(* modelled one transport operation per step.  The HyperBus transport and  *)
(* the flash chip behind it are the environment: either a scripted chip    *)
(* whose status register answers anything, or a simulated chip that        *)
(* decodes the command sequences, stores what is programmed and is ready   *)
(* at every poll.                                                          *)
(***************************************************************************)
EXTENDS Integers, Sequences, FiniteSets, TLC

(* ------------------------------ constants ------------------------------ *)

HYPERBUS_SIZE == 64 * 1024 * 1024
HYPERBUS_FILE_SYSTEM_ADDR_OFFSET == 256 * 1024
HYPERBUS_READ_SIZE == 2
HYPERBUS_PROG_SIZE == 2
HYPERBUS_SE_SIZE == 256 * 1024
HYPERBUS_TIMEOUT == 10000
HYPERBUS_DEVICE_READY == 128
HYPERBUS_ERASE_STATUS == 32
HYPERBUS_PROGRAM_STATUS == 16

\* The literal 512 of program(): the chip's program page (256 words).
PageSize == 512

\* mbed's BlockDevice error code.
BD_ERROR_DEVICE_ERROR == 0 - 4001

\* Every address and size of a valid call is below 2^27, so the uint32_t
\* locals (off, chunk) and the uint64_t bd_addr_t / bd_size_t values are
\* exact in the checker's 32-bit integers.  Only an unsigned difference
\* below zero wraps: to the top of the range, for which TopOfRange stands.
TopOfRange == 2147483646 + 1
Sub64(a, b) == IF a >= b THEN a - b ELSE TopOfRange - ((b - a) - 1)

\* The two register addresses of the command set, 0x555 << 1 and 0x2AA << 1.
Reg555 == 1365 * 2
Reg2AA == 682 * 2

(* -------------------------------- bounds -------------------------------- *)

\* Most sectors one erase call is asked to erase.
MaxSectors == 2
\* Most calls the simulated-chip harness issues in one run.
MaxCalls == 3

(* ------------------------------- bit helpers ---------------------------- *)

RECURSIVE BitAnd(_, _)
\* The C operator & on non-negative integers.
BitAnd(a, b) ==
    IF a = 0 \/ b = 0 THEN 0
    ELSE (IF a % 2 = 1 /\ b % 2 = 1 THEN 1 ELSE 0) + 2 * BitAnd(a \div 2, b \div 2)

(* ------------------------------ call inputs ----------------------------- *)

\* A caller's buffer is a pattern b; its byte at offset k is BufByte(b, k).
Buffers == {90, 165}
BufByte(b, k) == (b + 17 * k) % 256

\* The status words a chip may answer a poll with: nothing set, both failure
\* bits (0x10 program, 0x20 erase) without the ready bit, the ready bit
\* (0x80) alone, and the ready bit with either failure bit.
StatusWords == {0, 48, 128, 144, 160}

ProgAddrs == {0, 510, HYPERBUS_SIZE - 2}
ProgSizes == {0, 2, 4, 516}
EraseAddrs == {0, HYPERBUS_SE_SIZE, HYPERBUS_SIZE - HYPERBUS_SE_SIZE}
EraseCounts == 0 .. MaxSectors

(* ------------------------------- geometry ------------------------------- *)

get_read_size == HYPERBUS_READ_SIZE
get_program_size == HYPERBUS_PROG_SIZE
get_erase_size == HYPERBUS_SE_SIZE
get_erase_value == 255

(* -------------------------------- state --------------------------------- *)

VARIABLES
    pc,         \* where the driver is: "idle" between calls, else a code location
    op,         \* the call in progress, or the last one
    addr0,      \* the call's addr argument
    size0,      \* the call's size argument
    buf,        \* the call's buffer argument: <<pattern, offset into it>>
    addr,       \* addr as the loops advance it
    size,       \* size as the loops decrement it
    boff,       \* bytes the buffer pointer has advanced
    chunk,      \* the local chunk of program / erase
    k,          \* index of the next write of a command sequence
    i,          \* the loop counter of _sync
    status,     \* the status word of the poll that let _sync return
    ret,        \* the value the call returned, once pc is back to "idle"
    streak,     \* polls in a row the chip answered without the ready bit, in
                \* the latest _sync of the latest program / erase call
    sawReady,   \* whether the chip answered any poll of that call with ready
    trace,      \* the transport operations of this call
    out,        \* what read() left in the caller's buffer
    chip,       \* "scripted" or "simulated"
    oob,        \* what the simulated chip does with an address past its end
    fill,       \* the byte the simulated chip holds before any erase
    seq,        \* the chip's command decoder: the unlock writes seen so far
    mem,        \* the simulated chip's array: the erases and programs applied
    target,     \* the range <<A, S, B>> a test harness works on (B: a page boundary)
    calls,      \* a test harness's notebook: the calls that returned before this one
    phase,      \* the split test's script position
    snap,       \* the split test's record of the one-call run
    second,     \* the call frame of a second caller of the same instance
    _size       \* the member _size

vars == <<pc, op, addr0, size0, buf, addr, size, boff, chunk, k, i, status, ret,
          streak, sawReady, trace, out, chip, oob, fill, seq, mem, target, calls,
          phase, snap, second, _size>>

driver == <<pc, op, addr0, size0, buf, addr, size, boff, chunk, k, i, status, ret>>
harness == <<target, calls, phase, snap, second>>
chipcfg == <<chip, oob, fill>>

\* No status word at hand: the local status is out of scope.
NoStatus == 0 - 1
NoBuf == <<0, 0>>
\* The frame of a caller that is not in a call.
NoCall == [pc |-> "idle", addr |-> 0, size |-> 0, chunk |-> 0, k |-> 1, i |-> 0,
           ret |-> 0, ops |-> {}]

\* A size() that leaves out the 256 KiB in front of the file system.
SizeBehindOffset == _size - HYPERBUS_FILE_SYSTEM_ADDR_OFFSET

\* size(): return _size;
size_ == _size

\* BlockDevice::is_valid_read / is_valid_program / is_valid_erase.
is_valid_read(a, s) ==
    a % get_read_size = 0 /\ s % get_read_size = 0 /\ a + s <= size_
is_valid_program(a, s) ==
    a % get_program_size = 0 /\ s % get_program_size = 0 /\ a + s <= size_
is_valid_erase(a, s) ==
    a % get_erase_size = 0 /\ s % get_erase_size = 0 /\ a + s <= size_

(* --------------------------- the chip (environment) --------------------- *)

WriteOp(a, v) == [op |-> "write", addr |-> a, val |-> v]
ReadOp(a) == [op |-> "read", addr |-> a]
WriteBlockOp(a, b, n) == [op |-> "write_block", addr |-> a, buf |-> b, len |-> n]
ReadBlockOp(a, n) == [op |-> "read_block", addr |-> a, len |-> n]

\* The command sequences the chip decodes.
UnlockProgram == <<WriteOp(Reg555, 170), WriteOp(Reg2AA, 85), WriteOp(Reg555, 160)>>
UnlockErase ==
    <<WriteOp(Reg555, 170), WriteOp(Reg2AA, 85), WriteOp(Reg555, 128),
      WriteOp(Reg555, 170), WriteOp(Reg2AA, 85)>>
UnlockConfig == <<WriteOp(Reg555, 170), WriteOp(Reg2AA, 85), WriteOp(Reg555, 56)>>

IsPrefix(s, t) == Len(s) <= Len(t) /\ s = SubSeq(t, 1, Len(s))

\* The decoder after a register write: it follows a known sequence or resets.
ChipSeqAfterWrite(s, a, v) ==
    LET t == Append(s, WriteOp(a, v))
    IN  IF \/ IsPrefix(t, UnlockProgram)
           \/ IsPrefix(t, UnlockErase)
           \/ IsPrefix(t, UnlockConfig)
        THEN t ELSE <<>>

\* The array after a register write: a sector erase when the erase unlock
\* sequence precedes the write of 0x30; the scripted chip stores nothing.
ChipMemAfterWrite(m, s, a, v) ==
    IF chip = "simulated" /\ s = UnlockErase /\ v = 48
    THEN Append(m, [kind |-> "erase", addr |-> a - (a % HYPERBUS_SE_SIZE)])
    ELSE m

\* The array after a block write: programmed when the program unlock
\* sequence precedes it.
ChipMemAfterBlock(m, s, a, b, n) ==
    IF chip = "simulated" /\ s = UnlockProgram /\ n > 0
    THEN Append(m, [kind |-> "prog", addr |-> a, buf |-> b, len |-> n])
    ELSE m

\* Whether array operation e reaches the byte at physical address a.  An
\* address past the end of the chip wraps to its start (the chip ignores
\* the upper address bits) or reaches nothing (no chip is selected).
Cell(a) == IF oob = "wrap" THEN a % HYPERBUS_SIZE ELSE a
OnChip(a) == oob = "wrap" \/ a < HYPERBUS_SIZE
Offset(e, a) == Cell(a - e.addr)
Reaches(e, a) ==
    /\ OnChip(a)
    /\ IF e.kind = "erase"
       THEN OnChip(e.addr) /\ Cell(a) - (Cell(a) % HYPERBUS_SE_SIZE) = Cell(e.addr)
       ELSE 0 <= Offset(e, a) /\ Offset(e, a) < e.len

RECURSIVE ChipByte(_, _)
\* The byte the array holds at physical address a: an erase sets it to
\* 0xFF, a program can only clear bits of it (NOR flash).
ChipByte(m, a) ==
    IF ~OnChip(a) THEN get_erase_value
    ELSE IF m = <<>> THEN fill
    ELSE LET e == m[Len(m)]
             before == ChipByte(SubSeq(m, 1, Len(m) - 1), a)
         IN  IF ~Reaches(e, a) THEN before
             ELSE IF e.kind = "erase" THEN get_erase_value
             ELSE BitAnd(before, BufByte(e.buf[1], e.buf[2] + Offset(e, a)))

(* --------------------------- the transport ------------------------------ *)

\* _hyperbus.write(a, v, uHYPERBUS_Mem_Access)
HyperWrite(a, v) ==
    /\ trace' = Append(trace, WriteOp(a, v))
    /\ seq' = ChipSeqAfterWrite(seq, a, v)
    /\ mem' = ChipMemAfterWrite(mem, seq, a, v)

\* _hyperbus.write_block(a, buffer, n, uHYPERBUS_Mem_Access)
HyperWriteBlock(a, b, n) ==
    /\ trace' = Append(trace, WriteBlockOp(a, b, n))
    /\ seq' = <<>>
    /\ mem' = ChipMemAfterBlock(mem, seq, a, b, n)

\* _hyperbus.read_block(a, buffer, n, uHYPERBUS_Mem_Access): the bytes read.
HyperReadBlock(a, n) ==
    IF chip = "simulated" THEN [j \in 1 .. n |-> ChipByte(mem, a + j - 1)] ELSE <<>>

\* Bit 7 of the chip's status register: the chip is ready.
ChipReady(w) == (w \div 128) % 2 = 1

\* The words _hyperbus.read(0) may return after the status command.
HyperReadStatus == IF chip = "simulated" THEN {HYPERBUS_DEVICE_READY} ELSE StatusWords

(* ------------------------------ the driver ------------------------------ *)

\* An entry that keeps the buffer offset of the call before.
EnterKeepingBuffer(f, b, a, s, at) ==
    /\ pc = "idle"
    /\ pc' = at
    /\ op' = f
    /\ addr0' = a /\ size0' = s /\ buf' = b
    /\ addr' = a /\ size' = s /\ boff' = boff
    /\ chunk' = 0 /\ k' = 1 /\ i' = 0
    /\ status' = NoStatus
    /\ trace' = <<>>
    /\ ret' = 0
    /\ UNCHANGED <<out, seq, mem, chipcfg, _size>>

\* What every call does on entry, whatever the function.
Enter(f, b, a, s, at) ==
    /\ pc = "idle"
    /\ pc' = at
    /\ op' = f
    /\ addr0' = a /\ size0' = s /\ buf' = b
    /\ addr' = a /\ size' = s /\ boff' = 0
    /\ chunk' = 0 /\ k' = 1 /\ i' = 0
    /\ status' = NoStatus
    /\ trace' = <<>>
    /\ ret' = 0
    /\ UNCHANGED <<out, seq, mem, chipcfg, _size>>

\* return v
Return(v) == pc' = "idle" /\ ret' = v

\* The four writes with the two unlock writes in the wrong order.
InitWritesSwapped ==
    <<WriteOp(Reg2AA, 85), WriteOp(Reg555, 170), WriteOp(Reg555, 56), WriteOp(0, 36363)>>

\* init(): the four writes that set the VCR.
InitWrites ==
    <<WriteOp(Reg555, 170), WriteOp(Reg2AA, 85), WriteOp(Reg555, 56), WriteOp(0, 36363)>>

init ==
    /\ Enter("init", NoBuf, 0, 0, "init")
    /\ UNCHANGED <<streak, sawReady>>

InitWrite ==
    /\ pc = "init"
    /\ HyperWrite(InitWrites[k].addr, InitWrites[k].val)
    /\ k' = k + 1
    /\ IF k = Len(InitWrites) THEN Return(0) ELSE UNCHANGED <<pc, ret>>
    /\ UNCHANGED <<op, addr0, size0, buf, addr, size, boff, chunk, i, status,
                   streak, sawReady, out, chipcfg, harness, _size>>

\* deinit(): return 0.
deinit ==
    /\ Enter("deinit", NoBuf, 0, 0, "deinit")
    /\ UNCHANGED <<streak, sawReady>>

DeinitReturn ==
    /\ pc = "deinit"
    /\ Return(0)
    /\ UNCHANGED <<op, addr0, size0, buf, addr, size, boff, chunk, k, i, status,
                   streak, sawReady, trace, out, seq, mem, chipcfg, harness, _size>>

\* _wren(): return 0.
_wren == 0

\* read(): one block read at addr + HYPERBUS_FILE_SYSTEM_ADDR_OFFSET.
read(a, s) ==
    /\ is_valid_read(a, s)
    /\ Enter("read", NoBuf, a, s, "read")
    /\ UNCHANGED <<streak, sawReady>>

\* A read that forgets the file-system offset.
ReadPhysNoOffset(a) == a

ReadPhys(a) == a + HYPERBUS_FILE_SYSTEM_ADDR_OFFSET

ReadBlock ==
    /\ pc = "read"
    /\ trace' = Append(trace, ReadBlockOp(ReadPhys(addr), size))
    /\ out' = HyperReadBlock(ReadPhys(addr), size)
    /\ Return(0)
    /\ UNCHANGED <<op, addr0, size0, buf, addr, size, boff, chunk, k, i, status,
                   streak, sawReady, seq, mem, chipcfg, harness, _size>>

\* A chunk computation that does not split at all, and one that forgets the
\* offset into the page.
\* program(): uint32_t off = addr % 512;
\*            uint32_t chunk = (off + size < 512) ? size : (512 - off);
ProgramChunkNoSplit(a, s) == s

ProgramChunkWholePage(a, s) ==
    LET off == a % PageSize
    IN  IF off + s < PageSize THEN s ELSE PageSize

ProgramChunk(a, s) ==
    LET off == a % PageSize
    IN  IF off + s < PageSize THEN s ELSE PageSize - off

\* A block write that forgets the file-system offset.
ProgramPhysNoOffset(a) == a

ProgramPhys(a) == a + HYPERBUS_FILE_SYSTEM_ADDR_OFFSET

\* A command sequence with its last two writes exchanged.
ProgramCommandsReordered ==
    <<WriteOp(Reg555, 170), WriteOp(Reg555, 160), WriteOp(Reg2AA, 85)>>

ProgramCommands == <<WriteOp(Reg555, 170), WriteOp(Reg2AA, 85), WriteOp(Reg555, 160)>>

program(b, a, s) ==
    /\ is_valid_program(a, s)
    /\ Enter("program", b, a, s, "p_while")
    /\ streak' = 0 /\ sawReady' = FALSE

\* A loop that tests size after its body: do { ... } while (size > 0).
ProgramDoWhile ==
    /\ pc = "p_while"
    /\ IF size > 0 \/ trace = <<>>
       THEN /\ chunk' = ProgramChunk(addr, size)
            /\ k' = 1
            /\ pc' = "p_cmd"
            /\ UNCHANGED ret
       ELSE Return(0) /\ UNCHANGED <<chunk, k>>
    /\ UNCHANGED <<op, addr0, size0, buf, addr, size, boff, i, status, streak,
                   sawReady, trace, out, seq, mem, chipcfg, harness, _size>>

\* while (size > 0) { err = _wren(); if (err) return err; off, chunk ...
ProgramWhile ==
    /\ pc = "p_while"
    /\ IF size > 0
       THEN IF _wren # 0
            THEN Return(_wren) /\ UNCHANGED <<chunk, k>>
            ELSE /\ chunk' = ProgramChunk(addr, size)
                 /\ k' = 1
                 /\ pc' = "p_cmd"
                 /\ UNCHANGED ret
       ELSE Return(0) /\ UNCHANGED <<chunk, k>>
    /\ UNCHANGED <<op, addr0, size0, buf, addr, size, boff, i, status, streak,
                   sawReady, trace, out, seq, mem, chipcfg, harness, _size>>

\* The three writes of the command sequence.
ProgramCommand ==
    /\ pc = "p_cmd"
    /\ HyperWrite(ProgramCommands[k].addr, ProgramCommands[k].val)
    /\ k' = k + 1
    /\ pc' = IF k = Len(ProgramCommands) THEN "p_block" ELSE "p_cmd"
    /\ UNCHANGED <<op, addr0, size0, buf, addr, size, boff, chunk, i, status, ret,
                   streak, sawReady, out, chipcfg, harness, _size>>

\* write_block; buffer += chunk; addr += chunk; size -= chunk; err = _sync();
ProgramBlock ==
    /\ pc = "p_block"
    /\ HyperWriteBlock(ProgramPhys(addr), <<buf[1], buf[2] + boff>>, chunk)
    /\ boff' = boff + chunk
    /\ addr' = addr + chunk
    /\ size' = Sub64(size, chunk)
    /\ i' = 0 /\ streak' = 0
    /\ pc' = "sync"
    /\ UNCHANGED <<op, addr0, size0, buf, chunk, k, status, ret, sawReady, out,
                   chipcfg, harness, _size>>

\* A chunk that is not the sector size.
EraseChunkHalf == HYPERBUS_SE_SIZE \div 2

\* erase(): uint32_t chunk = HYPERBUS_SE_SIZE;
EraseChunk == HYPERBUS_SE_SIZE

ErasePhys(a) == a + HYPERBUS_FILE_SYSTEM_ADDR_OFFSET

\* An unlock sequence without its second pair of unlock writes.
EraseCommandsNoSecondUnlock ==
    <<WriteOp(Reg555, 170), WriteOp(Reg2AA, 85), WriteOp(Reg555, 128)>>

EraseCommands ==
    <<WriteOp(Reg555, 170), WriteOp(Reg2AA, 85), WriteOp(Reg555, 128),
      WriteOp(Reg555, 170), WriteOp(Reg2AA, 85)>>

\* The erase-command byte written at the sector's address.
EraseCommandByte == 48

erase(a, s) ==
    /\ is_valid_erase(a, s)
    /\ Enter("erase", NoBuf, a, s, "e_while")
    /\ streak' = 0 /\ sawReady' = FALSE

\* while (size > 0) { err = _wren(); if (err) return err; chunk = ...
EraseWhile ==
    /\ pc = "e_while"
    /\ IF size > 0
       THEN IF _wren # 0
            THEN Return(_wren) /\ UNCHANGED <<chunk, k>>
            ELSE /\ chunk' = EraseChunk
                 /\ k' = 1
                 /\ pc' = "e_cmd"
                 /\ UNCHANGED ret
       ELSE Return(0) /\ UNCHANGED <<chunk, k>>
    /\ UNCHANGED <<op, addr0, size0, buf, addr, size, boff, i, status, streak,
                   sawReady, trace, out, seq, mem, chipcfg, harness, _size>>

\* The five writes of the unlock sequence.
EraseCommand ==
    /\ pc = "e_cmd"
    /\ HyperWrite(EraseCommands[k].addr, EraseCommands[k].val)
    /\ k' = k + 1
    /\ pc' = IF k = Len(EraseCommands) THEN "e_sector" ELSE "e_cmd"
    /\ UNCHANGED <<op, addr0, size0, buf, addr, size, boff, chunk, i, status, ret,
                   streak, sawReady, out, chipcfg, harness, _size>>

\* write(addr + offset, 0x30); addr += chunk; size -= chunk; err = _sync();
EraseSector ==
    /\ pc = "e_sector"
    /\ HyperWrite(ErasePhys(addr), EraseCommandByte)
    /\ addr' = addr + chunk
    /\ size' = Sub64(size, chunk)
    /\ i' = 0 /\ streak' = 0
    /\ pc' = "sync"
    /\ UNCHANGED <<op, addr0, size0, buf, boff, chunk, k, status, ret, sawReady,
                   out, chipcfg, harness, _size>>

\* A loop bound off by one (i <= HYPERBUS_TIMEOUT).
SyncLimitOffByOne == HYPERBUS_TIMEOUT + 1

\* _sync(): for (int i = 0; i < HYPERBUS_TIMEOUT; i++)
SyncLimit == HYPERBUS_TIMEOUT

\* A ready test that also wants the failure bits clear.
SyncReadyNoFault(w) ==
    /\ BitAnd(w, HYPERBUS_DEVICE_READY) # 0
    /\ BitAnd(w, HYPERBUS_ERASE_STATUS + HYPERBUS_PROGRAM_STATUS) = 0

\* A ready test that takes any set bit for the ready bit.
SyncReadyAnyBit(w) == w # 0

\* if (status & HYPERBUS_DEVICE_READY)
SyncReady(w) == BitAnd(w, HYPERBUS_DEVICE_READY) # 0

\* The two transport operations of one poll.
PollOps == <<WriteOp(Reg555, 112), ReadOp(0)>>

\* Where program / erase go on when _sync returned 0: if (err) return err;
AfterSync == IF op = "program" THEN "p_while" ELSE "e_while"

\* One iteration of _sync's loop: the status command, the status read, and
\* either return 0 or wait_ms(1) and i++.  The trace keeps the first poll of
\* a _sync; i counts them all.
SyncPoll ==
    /\ pc = "sync"
    /\ i < SyncLimit
    /\ trace' = IF i = 0 THEN trace \o PollOps ELSE trace
    /\ seq' = <<>>
    /\ \E w \in HyperReadStatus :
          /\ streak' = IF ChipReady(w) THEN 0 ELSE streak + 1
          /\ sawReady' = (sawReady \/ ChipReady(w))
          /\ IF SyncReady(w)
             THEN /\ status' = w
                  /\ i' = 0
                  /\ pc' = AfterSync
             ELSE /\ status' = NoStatus
                  /\ i' = i + 1
                  /\ pc' = "sync"
    /\ UNCHANGED <<op, addr0, size0, buf, addr, size, boff, chunk, k, ret, out,
                   mem, chipcfg, harness, _size>>

\* A caller that ignores the error of _sync and goes on with its loop.
SyncTimeoutIgnored ==
    /\ pc = "sync"
    /\ ~(i < SyncLimit)
    /\ pc' = AfterSync
    /\ i' = 0
    /\ UNCHANGED <<op, addr0, size0, buf, addr, size, boff, chunk, k, status, ret,
                   streak, sawReady, trace, out, seq, mem, chipcfg, harness, _size>>

\* The loop ran out: return BD_ERROR_DEVICE_ERROR, which program / erase return.
SyncTimeout ==
    /\ pc = "sync"
    /\ ~(i < SyncLimit)
    /\ Return(BD_ERROR_DEVICE_ERROR)
    /\ i' = 0
    /\ UNCHANGED <<op, addr0, size0, buf, addr, size, boff, chunk, k, status,
                   streak, sawReady, trace, out, seq, mem, chipcfg, harness, _size>>

\* The steps inside a call.
Step ==
    \/ InitWrite
    \/ DeinitReturn
    \/ ReadBlock
    \/ ProgramWhile
    \/ ProgramCommand
    \/ ProgramBlock
    \/ EraseWhile
    \/ EraseCommand
    \/ EraseSector
    \/ SyncPoll
    \/ SyncTimeout

(* ------------------- the driver against a scripted chip ----------------- *)

InitDriver ==
    /\ pc = "idle" /\ op = "none"
    /\ addr0 = 0 /\ size0 = 0 /\ buf = NoBuf
    /\ addr = 0 /\ size = 0 /\ boff = 0
    /\ chunk = 0 /\ k = 1 /\ i = 0
    /\ status = NoStatus
    /\ ret = 0 /\ streak = 0 /\ sawReady = FALSE
    /\ trace = <<>> /\ out = <<>>
    /\ seq = <<>> /\ mem = <<>>
    /\ _size = HYPERBUS_SIZE
    /\ second = NoCall

Init ==
    /\ InitDriver
    /\ chip = "scripted" /\ oob = "none" /\ fill = 0
    /\ target = <<0, 0, 0>> /\ calls = <<>> /\ phase = "free" /\ snap = <<>>

CallInit == init /\ UNCHANGED harness
CallDeinit == deinit /\ UNCHANGED harness
CallRead == \E a \in ProgAddrs, s \in ProgSizes : read(a, s) /\ UNCHANGED harness
CallProgram ==
    \E b \in Buffers, a \in ProgAddrs, s \in ProgSizes :
        program(<<b, 0>>, a, s) /\ UNCHANGED harness
CallErase ==
    \E a \in EraseAddrs, n \in EraseCounts :
        erase(a, n * HYPERBUS_SE_SIZE) /\ UNCHANGED harness

Next ==
    \/ CallInit
    \/ CallDeinit
    \/ CallRead
    \/ CallProgram
    \/ CallErase
    \/ Step

Spec == Init /\ [][Next]_vars

(* ------------------ the driver against a simulated chip ----------------- *)

\* What the chip does with an address past its end, and what it holds at
\* power-up: either is fixed for a run, and any of them may be the case.
OutOfRange == {"wrap", "void"}
Fills == {0, 255}

\* The ranges <<A, S, 0>> the round-trip harness works on: inside a page,
\* across a page boundary, across a sector boundary, up to the end of the
\* chip, across it, and past it.
StoreTargets ==
    { <<0, 2, 0>>, <<510, 4, 0>>, <<510, 516, 0>>,
      <<HYPERBUS_SE_SIZE - 2, 4, 0>>,
      <<HYPERBUS_SIZE - HYPERBUS_SE_SIZE - 4, 4, 0>>,
      <<HYPERBUS_SIZE - HYPERBUS_SE_SIZE - 2, 4, 0>>,
      <<HYPERBUS_SIZE - 2, 2, 0>> }

\* The sectors covering [A, A + S).
CoverBase(a) == a - (a % HYPERBUS_SE_SIZE)
CoverSize(a, s) ==
    IF s = 0 THEN 0
    ELSE (((a + s - 1) \div HYPERBUS_SE_SIZE) + 1) * HYPERBUS_SE_SIZE - CoverBase(a)

\* The harness notes the call that has returned when it issues the next one.
CallRecord ==
    [op |-> op, addr |-> addr0, size |-> size0, buf |-> buf, ret |-> ret,
     trace |-> trace]
Noted == IF op = "none" THEN calls ELSE Append(calls, CallRecord)
Issue ==
    /\ Len(Noted) < MaxCalls
    /\ calls' = Noted
    /\ UNCHANGED <<target, phase, snap, second>>

InitStore ==
    /\ InitDriver
    /\ chip = "simulated" /\ oob \in OutOfRange /\ fill \in Fills
    /\ target \in StoreTargets
    /\ calls = <<>> /\ phase = "free" /\ snap = <<>>

StoreInit == init /\ Issue
StoreErase ==
    /\ erase(CoverBase(target[1]), CoverSize(target[1], target[2]))
    /\ Issue
StoreProgram == \E b \in Buffers : program(<<b, 0>>, target[1], target[2]) /\ Issue
StoreRead == read(target[1], target[2]) /\ Issue

NextStore ==
    \/ StoreInit
    \/ StoreErase
    \/ StoreProgram
    \/ StoreRead
    \/ InitWrite
    \/ ReadBlock
    \/ ProgramWhile
    \/ ProgramCommand
    \/ ProgramBlock
    \/ EraseWhile
    \/ EraseCommand
    \/ EraseSector
    \/ SyncPoll

SpecStore == InitStore /\ [][NextStore]_vars

(* --------------------------- the split test ----------------------------- *)

\* The ranges <<A, S, B>> of the split test: B is a page boundary strictly
\* inside [A, A + S).
SplitTargets ==
    { <<510, 4, 512>>, <<0, 516, 512>>, <<510, 516, 512>>, <<510, 516, 1024>>,
      <<HYPERBUS_SIZE - 514, 514, HYPERBUS_SIZE - 512>> }

InitSplit ==
    /\ InitDriver
    /\ chip = "simulated" /\ oob \in OutOfRange /\ fill \in Fills
    /\ target \in SplitTargets
    /\ calls = <<>> /\ phase = "start" /\ snap = <<>>

\* First run: the whole range in one call.
SplitWhole ==
    /\ phase = "start"
    /\ \E b \in Buffers : program(<<b, 0>>, target[1], target[2])
    /\ phase' = "whole"
    /\ UNCHANGED <<target, calls, snap, second>>

\* The harness records the first run and puts the chip back into the state
\* that run started from.
SplitRestore ==
    /\ phase = "whole" /\ pc = "idle"
    /\ snap' = <<CallRecord, mem>>
    /\ mem' = <<>> /\ seq' = <<>>
    /\ phase' = "fresh"
    /\ UNCHANGED <<driver, streak, sawReady, trace, out, chipcfg, target, calls,
                   second, _size>>

\* Second run: the part below the boundary ...
SplitFirst ==
    /\ phase = "fresh"
    /\ program(buf, target[1], target[3] - target[1])
    /\ phase' = "first"
    /\ UNCHANGED <<target, calls, snap, second>>

\* ... and the rest, from the buffer advanced by the bytes of the first part.
SplitSecond ==
    /\ phase = "first"
    /\ program(<<buf[1], buf[2] + (target[3] - target[1])>>,
               target[3], target[1] + target[2] - target[3])
    /\ calls' = Noted
    /\ phase' = "second"
    /\ UNCHANGED <<target, snap, second>>

NextSplit ==
    \/ SplitWhole
    \/ SplitRestore
    \/ SplitFirst
    \/ SplitSecond
    \/ ProgramWhile
    \/ ProgramCommand
    \/ ProgramBlock
    \/ SyncPoll

SpecSplit == InitSplit /\ [][NextSplit]_vars

(* --------------------------- the replay test ---------------------------- *)

\* A call: the function and its arguments.
Call(f, b, a, s) == [op |-> f, buf |-> b, addr |-> a, size |-> s]

Invoke(c) ==
    IF c.op = "program" THEN program(c.buf, c.addr, c.size)
    ELSE IF c.op = "erase" THEN erase(c.addr, c.size)
    ELSE IF c.op = "read" THEN read(c.addr, c.size)
    ELSE IF c.op = "init" THEN init
    ELSE deinit

\* The calls that are made twice, and the calls a history is made of.
Probes ==
    { Call("program", <<90, 0>>, 510, 516),
      Call("erase", NoBuf, 0, 2 * HYPERBUS_SE_SIZE),
      Call("read", NoBuf, 510, 4),
      Call("init", NoBuf, 0, 0) }
HistoryCalls ==
    { Call("program", <<165, 0>>, 0, 2),
      Call("erase", NoBuf, HYPERBUS_SE_SIZE, HYPERBUS_SE_SIZE),
      Call("read", NoBuf, 0, 2),
      Call("init", NoBuf, 0, 0),
      Call("deinit", NoBuf, 0, 0) }

InitReplay ==
    /\ InitDriver
    /\ chip = "simulated" /\ oob = "void" /\ fill = 0
    /\ target = <<0, 0, 0>>
    /\ calls = <<>> /\ phase = "start" /\ snap = <<>>

\* First run: the call on a driver that has made no call yet, the chip
\* answering ready at every poll.
ReplayFresh ==
    /\ phase = "start"
    /\ \E c \in Probes : Invoke(c)
    /\ phase' = "fresh"
    /\ UNCHANGED <<target, calls, snap, second>>

\* The harness records the first run, empties the chip and lets it answer
\* the polls as it likes from here on.
ReplayRecord ==
    /\ phase = "fresh" /\ pc = "idle"
    /\ snap' = <<CallRecord, mem, out>>
    /\ chip' = "scripted"
    /\ mem' = <<>> /\ seq' = <<>>
    /\ phase' = "history"
    /\ UNCHANGED <<driver, streak, sawReady, trace, out, oob, fill, target, calls,
                   second, _size>>

\* Any number of calls, which may time out.
ReplayHistory ==
    /\ phase = "history"
    /\ \E c \in HistoryCalls : Invoke(c)
    /\ UNCHANGED harness

\* The harness notes how the last call of the history ended, empties the
\* chip and has it answer ready at every poll again.
ReplaySettle ==
    /\ phase = "history" /\ pc = "idle"
    /\ calls' = <<CallRecord>>
    /\ chip' = "simulated"
    /\ mem' = <<>> /\ seq' = <<>>
    /\ phase' = "settled"
    /\ UNCHANGED <<driver, streak, sawReady, trace, out, oob, fill, target, snap,
                   second, _size>>

\* Second run: the call of the first run, with the same arguments.
ReplayProbe ==
    /\ phase = "settled"
    /\ Invoke(Call(snap[1].op, snap[1].buf, snap[1].addr, snap[1].size))
    /\ phase' = "probe"
    /\ UNCHANGED <<target, calls, snap, second>>

NextReplay ==
    \/ ReplayFresh
    \/ ReplayRecord
    \/ ReplayHistory
    \/ ReplaySettle
    \/ ReplayProbe
    \/ Step

SpecReplay == InitReplay /\ [][NextReplay]_vars

(* ------------------------- two callers, one device --------------------- *)

\* A second thread calls erase() on the same instance.  Its locals are its
\* own (the frame second); the transport and the chip are the ones the first
\* caller uses.  No method takes a lock, so the scheduler may run either
\* thread between any two transport operations.
others == <<driver, streak, sawReady, out, chipcfg, target, calls, phase, snap, _size>>

SecondErase(a, s) ==
    /\ second.pc = "idle"
    /\ is_valid_erase(a, s)
    /\ second' = [NoCall EXCEPT !.pc = "e_while", !.addr = a, !.size = s]
    /\ UNCHANGED <<others, trace, seq, mem>>

\* while (size > 0) { err = _wren(); if (err) return err; chunk = ...
SecondWhile ==
    /\ second.pc = "e_while"
    /\ second' = IF second.size > 0
                 THEN IF _wren # 0
                      THEN [second EXCEPT !.pc = "done", !.ret = _wren]
                      ELSE [second EXCEPT !.pc = "e_cmd", !.chunk = EraseChunk,
                                          !.k = 1]
                 ELSE [second EXCEPT !.pc = "done", !.ret = 0]
    /\ UNCHANGED <<others, trace, seq, mem>>

\* The five writes of the unlock sequence.
SecondCommand ==
    /\ second.pc = "e_cmd"
    /\ HyperWrite(EraseCommands[second.k].addr, EraseCommands[second.k].val)
    /\ second' = [second EXCEPT
                     !.k = second.k + 1,
                     !.pc = IF second.k = Len(EraseCommands) THEN "e_sector"
                            ELSE "e_cmd",
                     !.ops = second.ops \cup {Len(trace) + 1}]
    /\ UNCHANGED others

\* write(addr + offset, 0x30); addr += chunk; size -= chunk; err = _sync();
SecondSector ==
    /\ second.pc = "e_sector"
    /\ HyperWrite(ErasePhys(second.addr), EraseCommandByte)
    /\ second' = [second EXCEPT
                     !.addr = second.addr + second.chunk,
                     !.size = Sub64(second.size, second.chunk),
                     !.i = 0,
                     !.pc = "sync",
                     !.ops = second.ops \cup {Len(trace) + 1}]
    /\ UNCHANGED others

\* One iteration of _sync's loop in the second thread.
SecondPoll ==
    /\ second.pc = "sync"
    /\ second.i < SyncLimit
    /\ trace' = IF second.i = 0 THEN trace \o PollOps ELSE trace
    /\ seq' = <<>>
    /\ \E w \in HyperReadStatus :
          second' = IF SyncReady(w)
                    THEN [second EXCEPT
                             !.i = 0, !.pc = "e_while",
                             !.ops = second.ops \cup
                                         (IF second.i = 0
                                          THEN {Len(trace) + 1, Len(trace) + 2}
                                          ELSE {})]
                    ELSE [second EXCEPT
                             !.i = second.i + 1,
                             !.ops = second.ops \cup
                                         (IF second.i = 0
                                          THEN {Len(trace) + 1, Len(trace) + 2}
                                          ELSE {})]
    /\ UNCHANGED <<others, mem>>

\* The loop ran out in the second thread.
SecondTimeout ==
    /\ second.pc = "sync"
    /\ ~(second.i < SyncLimit)
    /\ second' = [second EXCEPT !.i = 0, !.pc = "done",
                                !.ret = BD_ERROR_DEVICE_ERROR]
    /\ UNCHANGED <<others, trace, seq, mem>>

InitTwo ==
    /\ InitDriver
    /\ chip = "simulated" /\ oob = "void" /\ fill \in Fills
    /\ target = <<0, 0, 0>>
    /\ calls = <<>> /\ phase = "start" /\ snap = <<>>

\* The first thread programs the first two bytes or erases the first sector.
TwoFirst ==
    /\ phase = "start"
    /\ \/ \E b \in Buffers : program(<<b, 0>>, 0, 2)
       \/ erase(0, HYPERBUS_SE_SIZE)
    /\ phase' = "one"
    /\ UNCHANGED <<target, calls, snap, second>>

\* The second thread erases the second sector, at any time after that.
TwoSecond ==
    /\ phase = "one"
    /\ SecondErase(HYPERBUS_SE_SIZE, HYPERBUS_SE_SIZE)

NextTwo ==
    \/ TwoFirst
    \/ TwoSecond
    \/ ProgramWhile
    \/ ProgramCommand
    \/ ProgramBlock
    \/ EraseWhile
    \/ EraseCommand
    \/ EraseSector
    \/ SyncPoll
    \/ SecondWhile
    \/ SecondCommand
    \/ SecondSector
    \/ SecondPoll

SpecTwo == InitTwo /\ [][NextTwo]_vars

(* ------------------------- properties: helpers -------------------------- *)

Min(a, b) == IF a < b THEN a ELSE b
Last(s) == s[Len(s)]
SamePage(a, n) == a \div 512 = (a + n - 1) \div 512
Returned(f) == pc = "idle" /\ op = f
WritesBlock(e) == e.op = "write_block"
BlockWrites(t) == {j \in 1 .. Len(t) : WritesBlock(t[j])}

(* ------------------------------ properties ------------------------------ *)

\* C1: every block write of a program call carries min(remaining size,
\* 512 - (current addr mod 512)) bytes, at the current address plus the
\* offset, and its first and last byte lie in one 512-byte page, in logical
\* and in physical addresses.
C1_ChunkWithinPage ==
    [][(Len(trace') = Len(trace) + 1 /\ WritesBlock(Last(trace'))) =>
           LET e == Last(trace')
           IN  /\ e.len = Min(size, 512 - (addr % 512))
               /\ e.len > 0
               /\ e.addr = addr + 256 * 1024
               /\ SamePage(addr, e.len)
               /\ SamePage(e.addr, e.len)]_vars

\* A program call that was split: a block write shorter than the request
\* that stops at the end of a page.
C1_Witness ==
    /\ op = "program" /\ pc = "sync"
    /\ \E j \in BlockWrites(trace) :
          trace[j].len < size0 /\ (trace[j].addr + trace[j].len) % 512 = 0

\* The transport operations of the first chunk / sector of a call, up to
\* its first poll.
FirstOps ==
    IF op = "program"
    THEN <<WriteOp(2730, 170), WriteOp(1364, 85), WriteOp(2730, 160),
           WriteBlockOp(addr0 + 256 * 1024, buf, Min(size0, 512 - (addr0 % 512))),
           WriteOp(2730, 112), ReadOp(0)>>
    ELSE <<WriteOp(2730, 170), WriteOp(1364, 85), WriteOp(2730, 128),
           WriteOp(2730, 170), WriteOp(1364, 85),
           WriteOp(addr0 + 256 * 1024, 48),
           WriteOp(2730, 112), ReadOp(0)>>

\* C2: when no poll of a program / erase call (size > 0) is answered with
\* the ready bit, the call does not hang: it issues the command sequence and
\* the data / erase write of the first chunk / sector only, polls exactly
\* 10,000 times and returns BD_ERROR_DEVICE_ERROR; no poll loop passes
\* 10,000 polls.
C2_NeverReadyTimesOut ==
    /\ (pc = "sync") => (streak = i /\ i <= 10000)
    /\ (/\ pc = "idle" /\ op \in {"program", "erase"}
        /\ size0 > 0 /\ ~sawReady) =>
           /\ ret = BD_ERROR_DEVICE_ERROR
           /\ streak = 10000
           /\ trace = FirstOps

\* A request of more than one page whose first poll loop ran out.
C2_Witness ==
    /\ Returned("program") /\ size0 > 512 /\ ~sawReady
    /\ ret = BD_ERROR_DEVICE_ERROR

\* The six transport operations of chunk j + 1 in the trace of a program call.
ChunkOps(j) == SubSeq(trace, 6 * j + 1, 6 * j + 6)

\* What the trace of a program call that returned an error holds: chunks
\* 1..k and no other, each once, contiguous and ascending from addr, with
\* addr and size advanced past all k of them.
PartialProgram ==
    (Returned("program") /\ ret = BD_ERROR_DEVICE_ERROR) =>
        LET n == Len(trace) \div 6
        IN  /\ n >= 1 /\ Len(trace) = 6 * n
            /\ Cardinality(BlockWrites(trace)) = n
            /\ \A j \in 0 .. (n - 1) :
                  /\ SubSeq(ChunkOps(j), 1, 3) =
                         <<WriteOp(2730, 170), WriteOp(1364, 85), WriteOp(2730, 160)>>
                  /\ WritesBlock(ChunkOps(j)[4])
                  /\ SubSeq(ChunkOps(j), 5, 6) = <<WriteOp(2730, 112), ReadOp(0)>>
                  /\ ChunkOps(j)[4].len > 0
                  /\ ChunkOps(j)[4].addr =
                         IF j = 0 THEN addr0 + 256 * 1024
                         ELSE ChunkOps(j - 1)[4].addr + ChunkOps(j - 1)[4].len
            /\ addr + 256 * 1024 = trace[6 * n - 2].addr + trace[6 * n - 2].len
            /\ size = size0 - (addr - addr0)

\* C3: when the poll loop after chunk k of a program call runs out, the call
\* returns BD_ERROR_DEVICE_ERROR at once, with nothing more sent to the chip:
\* no chunk after k, no retry, no rollback; the block writes of chunks 1..k
\* have been issued.
C3_TimeoutAborts ==
    /\ []PartialProgram
    /\ [][(pc = "sync" /\ op = "program" /\ streak = 10000) =>
              /\ pc' = "idle" /\ ret' = BD_ERROR_DEVICE_ERROR
              /\ trace' = trace /\ mem' = mem /\ seq' = seq]_vars

\* A program call that timed out after its second chunk, with bytes left.
C3_Witness ==
    /\ Returned("program") /\ ret = BD_ERROR_DEVICE_ERROR
    /\ Len(trace) = 12 /\ size > 0

\* The eight transport operations of sector j + 1 in the trace of an erase call.
SectorOps(j) == SubSeq(trace, 8 * j + 1, 8 * j + 8)

\* C4: an erase of N sectors that every poll loop let through issues
\* exactly N command sequences, the k-th (k = 0..N-1) ending with 0x30
\* written at addr + k * 256 KiB + 256 KiB, in ascending order, ends with
\* no byte remaining and returns 0.
C4_EraseSectors ==
    (Returned("erase") /\ ret = 0) =>
        LET n == size0 \div (256 * 1024)
        IN  /\ Len(trace) = 8 * n
            /\ \A j \in 0 .. (n - 1) :
                  SectorOps(j) =
                      <<WriteOp(2730, 170), WriteOp(1364, 85), WriteOp(2730, 128),
                        WriteOp(2730, 170), WriteOp(1364, 85),
                        WriteOp(addr0 + j * 256 * 1024 + 256 * 1024, 48),
                        WriteOp(2730, 112), ReadOp(0)>>
            /\ size = 0

\* An erase of two sectors that returned 0.
C4_Witness == Returned("erase") /\ ret = 0 /\ size0 = 2 * 256 * 1024 /\ sawReady

\* C5: program and erase return 0 or BD_ERROR_DEVICE_ERROR, the latter
\* exactly when the chip answered the 10,000 polls of a poll loop without
\* bit 7; no other bit of the status word counts.
C5_ErrorIffTimeout ==
    /\ (pc = "sync") => streak = i
    /\ (pc = "idle" /\ op \in {"program", "erase"}) =>
           ret = (IF streak = 10000 THEN BD_ERROR_DEVICE_ERROR ELSE 0)

\* An erase that returned 0 on a status word with the ready bit and the
\* erase-status bit (0xA0).
C5_Witness == Returned("erase") /\ size0 > 0 /\ ret = 0 /\ status = 160

\* C6: a program / erase call whose last poll read a status word with the
\* erase-status (0x20) or program-status (0x10) bit returns
\* BD_ERROR_DEVICE_ERROR, not success.
C6_FaultIsError ==
    (/\ pc = "idle" /\ op \in {"program", "erase"}
     /\ status # NoStatus
     /\ BitAnd(status, 32 + 16) # 0) => ret = BD_ERROR_DEVICE_ERROR

\* The transport operations that target the array: block reads, block
\* writes and the sector-erase command.
TargetsArray(e) ==
    \/ e.op \in {"read_block", "write_block"}
    \/ e.op = "write" /\ e.val = 48

\* C7: every block read, block write and sector-erase command of a valid
\* call targets a physical address of the 64 MiB chip past its leading
\* 256 KiB, that is in [256 KiB, 64 MiB).
C7_WithinChip ==
    \A j \in 1 .. Len(trace) :
        TargetsArray(trace[j]) =>
            /\ 256 * 1024 <= trace[j].addr
            /\ trace[j].addr < 64 * 1024 * 1024

\* The n bytes at buffer pointer b.
BufBytes(b, n) == [j \in 1 .. n |-> BufByte(b[1], b[2] + j - 1)]

\* A read(out, A, S) has returned, the call before it was program(buf, A, S)
\* and returned 0, and the call before that erased the sectors covering
\* [A, A + S).
AfterEraseAndProgram ==
    /\ Returned("read") /\ Len(calls) >= 2
    /\ LET e == calls[Len(calls) - 1]
           p == calls[Len(calls)]
       IN  /\ e.op = "erase" /\ e.ret = 0
           /\ e.addr = CoverBase(addr0) /\ e.size = CoverSize(addr0, size0)
           /\ p.op = "program" /\ p.ret = 0
           /\ p.addr = addr0 /\ p.size = size0

RoundTripOnChip ==
    (AfterEraseAndProgram /\ addr0 + size0 + 256 * 1024 <= 64 * 1024 * 1024) =>
        /\ ret = 0
        /\ out = BufBytes(calls[Len(calls)].buf, size0)

\* C9: with every poll answered ready, programming [A, A + S) in one call
\* sends the chip the same transport operations, and leaves it with the
\* same contents, as program(buf, A, B - A) followed by
\* program(buf + (B - A), B, A + S - B), for a page boundary B inside the range.
C9_SplitAtBoundary ==
    (phase = "second" /\ pc = "idle") =>
        /\ Len(calls) = 1
        /\ snap[1].ret = 0 /\ calls[1].ret = 0 /\ ret = 0
        /\ calls[1].trace \o trace = snap[1].trace
        /\ mem = snap[2]
        /\ \A j \in 0 .. (target[2] - 1) :
              ChipByte(mem, target[1] + 256 * 1024 + j) =
                  ChipByte(snap[2], target[1] + 256 * 1024 + j)

\* Both runs are over, for a range that takes three chunks in one call and
\* is split at its second boundary.
C9_Witness ==
    /\ phase = "second" /\ pc = "idle"
    /\ Len(snap[1].trace) = 18
    /\ target[3] = 1024

\* C10: a read issues one transport operation, a block read of size bytes at
\* addr + 256 KiB, and returns 0, whatever the call before it returned.
C10_ReadIsOneBlockRead ==
    /\ (pc = "read") => trace = <<>>
    /\ Returned("read") =>
           /\ trace = <<ReadBlockOp(addr0 + 256 * 1024, size0)>>
           /\ ret = 0

\* A read that returned after a program / erase call that timed out.
C10_Witness == Returned("read") /\ size0 > 0 /\ streak = 10000

\* C11: in every state, whatever calls came before, the geometry accessors
\* return the same values: read size 2, program size 2, erase size 256 KiB,
\* erase value 0xFF and size() 64 MiB; the program size is a multiple of
\* the read size and the erase size a multiple of the program size.
C11_Geometry ==
    /\ get_read_size = 2
    /\ get_program_size = 2
    /\ get_erase_size = 256 * 1024
    /\ get_erase_value = 255
    /\ size_ = 64 * 1024 * 1024
    /\ get_program_size % get_read_size = 0
    /\ get_erase_size % get_program_size = 0

\* The accessors after a program call of three chunks that timed out.
C11_Witness ==
    /\ Returned("program") /\ ret = BD_ERROR_DEVICE_ERROR /\ Len(trace) = 18
    /\ size_ = 64 * 1024 * 1024 /\ get_erase_size = 256 * 1024

\* C12: init() issues four transport writes and nothing else, in this order:
\* 0xAA to 0x555<<1, 0x55 to 0x2AA<<1, 0x38 to 0x555<<1, 0x8e0b to address 0;
\* it reads and polls nothing and returns 0, whatever state the chip is in.
C12_InitWrites ==
    LET writes == <<WriteOp(2730, 170), WriteOp(1364, 85), WriteOp(2730, 56),
                    WriteOp(0, 36363)>>
    IN  /\ (pc = "init") => (k <= 4 /\ trace = SubSeq(writes, 1, k - 1))
        /\ Returned("init") => (trace = writes /\ ret = 0)

\* An init() that returned while the chip had left the 10,000 polls of the
\* call before it unanswered.
C12_Witness == Returned("init") /\ Len(trace) = 4 /\ streak = 10000

\* What the transport sees of a program call, chunk after chunk: the three
\* command writes, one block write, then the polls.
ProgramOrder ==
    (op = "program") =>
        \A j \in 1 .. Len(trace) :
            CASE (j - 1) % 6 = 0 -> trace[j] = WriteOp(2730, 170)
              [] (j - 1) % 6 = 1 -> trace[j] = WriteOp(1364, 85)
              [] (j - 1) % 6 = 2 -> trace[j] = WriteOp(2730, 160)
              [] (j - 1) % 6 = 3 -> WritesBlock(trace[j])
              [] (j - 1) % 6 = 4 -> trace[j] = WriteOp(2730, 112)
              [] OTHER -> trace[j] = ReadOp(0)

\* C13: in a program call the transport sees, for each chunk and in this
\* order, 0xAA to 0x555<<1, 0x55 to 0x2AA<<1, 0xA0 to 0x555<<1, one block
\* write, then status polls; the first write of the next chunk's sequence is
\* issued only when the latest poll read a status word with the ready bit.
C13_ProgramOrder ==
    /\ []ProgramOrder
    /\ [][(/\ op' = "program" /\ trace # <<>>
           /\ Len(trace') = Len(trace) + 1
           /\ Last(trace') = WriteOp(2730, 170)) =>
              /\ Last(trace) = ReadOp(0)
              /\ status # NoStatus /\ (status \div 128) % 2 = 1
              /\ streak = 0]_vars

\* A program call at the block write of its third chunk.
C13_Witness == op = "program" /\ pc = "p_block" /\ Len(trace) = 15

\* What the transport sees of an erase call, sector after sector: the five
\* unlock writes, 0x30 at the sector's physical address, then the polls.
EraseOrder ==
    (op = "erase") =>
        \A j \in 1 .. Len(trace) :
            CASE (j - 1) % 8 = 0 -> trace[j] = WriteOp(2730, 170)
              [] (j - 1) % 8 = 1 -> trace[j] = WriteOp(1364, 85)
              [] (j - 1) % 8 = 2 -> trace[j] = WriteOp(2730, 128)
              [] (j - 1) % 8 = 3 -> trace[j] = WriteOp(2730, 170)
              [] (j - 1) % 8 = 4 -> trace[j] = WriteOp(1364, 85)
              [] (j - 1) % 8 = 5 ->
                    trace[j] = WriteOp(addr0 + ((j - 1) \div 8) * 256 * 1024
                                           + 256 * 1024, 48)
              [] (j - 1) % 8 = 6 -> trace[j] = WriteOp(2730, 112)
              [] OTHER -> trace[j] = ReadOp(0)

\* An erase call that returned an error stopped after the polls of one of
\* its sectors.
EraseStopped ==
    (Returned("erase") /\ ret = BD_ERROR_DEVICE_ERROR) =>
        /\ streak = 10000
        /\ Len(trace) % 8 = 0 /\ Len(trace) >= 8
        /\ Len(trace) \div 8 <= size0 \div (256 * 1024)
        /\ addr = addr0 + (Len(trace) \div 8) * 256 * 1024

\* C14: in an erase call the transport sees, for each sector and in this
\* order, 0xAA to 0x555<<1, 0x55 to 0x2AA<<1, 0x80 to 0x555<<1, 0xAA to
\* 0x555<<1, 0x55 to 0x2AA<<1, 0x30 to the sector's physical address, then
\* status polls; the next sector's sequence starts only when the latest poll
\* read the ready bit, and when the polls of sector k run out the call
\* returns BD_ERROR_DEVICE_ERROR with nothing sent for the sectors after k.
C14_EraseOrder ==
    /\ []EraseOrder
    /\ []EraseStopped
    /\ [][(/\ op' = "erase" /\ trace # <<>>
           /\ Len(trace') = Len(trace) + 1
           /\ Last(trace') = WriteOp(2730, 170)
           /\ Len(trace) % 8 = 0) =>
              /\ Last(trace) = ReadOp(0)
              /\ status # NoStatus /\ (status \div 128) % 2 = 1
              /\ streak = 0]_vars
    /\ [][(pc = "sync" /\ op = "erase" /\ streak = 10000) =>
              /\ pc' = "idle" /\ ret' = BD_ERROR_DEVICE_ERROR
              /\ trace' = trace]_vars

\* An erase of two sectors that timed out on the first: nothing was sent for
\* the second.
C14_Witness ==
    /\ Returned("erase") /\ ret = BD_ERROR_DEVICE_ERROR
    /\ size0 = 2 * 256 * 1024 /\ Len(trace) = 8

\* The block write of chunk j + 1 in the trace of a program call.
Block(j) == trace[6 * j + 4]

RECURSIVE SumLen(_)
\* The lengths of the first n block writes, added up.
SumLen(n) == IF n = 0 THEN 0 ELSE SumLen(n - 1) + Block(n - 1).len

\* C15: the block writes of a program(buffer, addr, size) that returned 0
\* are contiguous and ascending from addr + 256 KiB, each carries the bytes
\* of the buffer at the offset that is the sum of the lengths before it,
\* and their lengths add up to size: the physical range
\* [addr + 256 KiB, addr + size + 256 KiB) is written once, byte for byte.
C15_ChunksCoverRange ==
    (Returned("program") /\ ret = 0) =>
        LET n == Len(trace) \div 6
        IN  /\ Len(trace) = 6 * n
            /\ BlockWrites(trace) = {6 * j + 4 : j \in 0 .. (n - 1)}
            /\ \A j \in 0 .. (n - 1) :
                  /\ Block(j).len > 0
                  /\ Block(j).addr = addr0 + 256 * 1024 + SumLen(j)
                  /\ Block(j).buf = <<buf[1], buf[2] + SumLen(j)>>
                  /\ BufBytes(Block(j).buf, Block(j).len) =
                         SubSeq(BufBytes(buf, size0), SumLen(j) + 1, SumLen(j + 1))
            /\ SumLen(n) = size0

\* A program call of three chunks that returned 0.
C15_Witness == Returned("program") /\ ret = 0 /\ Len(trace) = 18 /\ size0 = 516

\* The polls in a trace: the status command 0x70 at 0x555<<1 and the read of
\* address 0 come together, and what follows a poll loop is the first write
\* of the next command sequence.
PollsWhole ==
    \A j \in 1 .. Len(trace) :
        /\ (trace[j] = WriteOp(2730, 112)) =>
               (j < Len(trace) /\ trace[j + 1] = ReadOp(0))
        /\ (trace[j] = ReadOp(0)) =>
               /\ j > 1 /\ trace[j - 1] = WriteOp(2730, 112)
               /\ (j < Len(trace)) => trace[j + 1] = WriteOp(2730, 170)

\* C16: a poll of _sync is the write of 0x70 to 0x555<<1 and one read of
\* address 0; _sync returns 0 at the first poll that reads a word with bit 7
\* and polls no more; it returns BD_ERROR_DEVICE_ERROR exactly when 10,000
\* polls in a row read a word without bit 7, and never polls more than
\* 10,000 times.  (The trace keeps the first poll of a loop; i and the
\* chip's streak count them all.)
C16_Sync ==
    /\ []((pc = "sync") => (i <= 10000 /\ streak = i))
    /\ []PollsWhole
    /\ [][(pc = "sync" /\ i < 10000) =>
              /\ trace' = IF i = 0 THEN trace \o <<WriteOp(2730, 112), ReadOp(0)>>
                          ELSE trace
              /\ IF streak' = 0
                 THEN /\ pc' \in {"p_while", "e_while"}
                      /\ (status' \div 128) % 2 = 1
                      /\ ret' = 0
                 ELSE /\ pc' = "sync"
                      /\ i' = i + 1 /\ streak' = streak + 1]_vars
    /\ [][(pc = "sync" /\ i = 10000) =>
              /\ pc' = "idle" /\ ret' = BD_ERROR_DEVICE_ERROR
              /\ trace' = trace]_vars
    /\ [][(pc = "sync" /\ pc' = "idle") =>
              /\ streak = 10000
              /\ ret' = BD_ERROR_DEVICE_ERROR]_vars

\* The poll loop of the second sector of an erase after its 10,000th poll
\* without the ready bit.
C16_Witness == pc = "sync" /\ op = "erase" /\ i = 10000 /\ Len(trace) = 16

\* C17: the driver keeps nothing from one call to the next: a call made
\* after any history of calls, timed-out ones among them, sends the chip
\* the same transport operations, returns the same value and leaves the
\* same bytes as the same call made first, the chip answering alike.
C17_NoRetainedState ==
    (phase = "probe" /\ pc = "idle") =>
        /\ CallRecord = snap[1]
        /\ mem = snap[2]
        /\ out = snap[3]

\* The second run of a three-chunk program is over, and the last call of
\* the history before it had timed out.
C17_Witness ==
    /\ phase = "probe" /\ Returned("program") /\ Len(trace) = 18
    /\ calls[1].ret = BD_ERROR_DEVICE_ERROR

\* The transport operations of one caller are next to each other.
Contiguous(S) == \A a \in S, b \in S : \A j \in a .. b : j \in S

\* The first caller has sent part of a command sequence and not yet the
\* data or the erase command it unlocks.
MidSequence == (pc \in {"p_cmd", "e_cmd"} /\ k > 1) \/ pc \in {"p_block", "e_sector"}

BothErased ==
    (/\ Returned("erase") /\ ret = 0
     /\ second.pc = "done" /\ second.ret = 0) =>
        /\ ChipByte(mem, 256 * 1024) = 255
        /\ ChipByte(mem, 2 * 256 * 1024) = 255

\* C19: while the latest status poll left the chip not ready, the driver
\* sends it nothing but polls: after a program / erase call that returned
\* BD_ERROR_DEVICE_ERROR, the next call issues no command sequence, block
\* write or block read before a poll has read the ready bit.
C19_NoTouchWhileBusy ==
    (streak > 0 /\ op \in {"read", "program", "erase"}) =>
        (trace = <<>> \/ Last(trace) = ReadOp(0))

\* C20: program(buffer, addr, 0) and erase(addr, 0) with a valid addr send
\* the chip nothing, no unlock write, no data write, no poll, and return 0.
C20_ZeroSizeNoOps ==
    (op \in {"program", "erase"} /\ size0 = 0) =>
        /\ trace = <<>>
        /\ pc \in {"idle", "p_while", "e_while"}
        /\ ret = 0
        /\ size = 0 /\ addr = addr0

\* A program of no bytes at the last valid address has returned.
C20_Witness ==
    Returned("program") /\ size0 = 0 /\ addr0 = 64 * 1024 * 1024 - 2 /\ ret = 0

====
